---- MODULE Spec2Model ----
(***************************************************************************)
(* rusty_file_sync (src/rusty_file_sync/src/main.rs): a periodic directory *)
(* synchroniser.  A spawned task runs sync cycles every 10 s while a       *)
(* shared AtomicBool is true; main polls stdin for the line "q"; a Ctrl-C  *)
(* handler clears the flag.                                                *)
(*                                                                         *)
(* Two directory trees are modelled as functions from a small universe of  *)
(* relative paths to entries.  One step of the sync task is one iteration  *)
(* of a loop of sync_oneway (every iteration holds at most one awaited     *)
(* filesystem operation).                                                  *)
(***************************************************************************)
EXTENDS Integers, Sequences, FiniteSets, TLC

\* ---------------------------------------------------------------- bounds
\* Number of cycles the run loop may start in a behaviour.
MaxCycles == 2

\* File contents and initial modification times used to build the trees.
Contents == {"X", "Y"}
Mtimes == {0, 1}
StartTime == CHOOSE m \in Mtimes : \A n \in Mtimes : n <= m

\* The four recognised mode strings and one unrecognised one.
Modes == {"one", "bi", "one+no_delete", "bi+no_delete"}
ModeArgs == Modes \cup {"mirror"}

\* ------------------------------------------------------------ file trees
Root == << >>
Paths == {<< >>, <<"a">>, <<"d">>, <<"d", "f">>}

NoEntry == [kind |-> "none", content |-> "", mtime |-> 0]
DirEntry == [kind |-> "dir", content |-> "", mtime |-> 0]
FileEntry(c, m) == [kind |-> "file", content |-> c, mtime |-> m]

Parent(p) == SubSeq(p, 1, Len(p) - 1)

\* q is p or lies beneath p
IsUnder(q, p) == Len(q) >= Len(p) /\ SubSeq(q, 1, Len(p)) = p

Present(t) == {p \in Paths : t[p].kind # "none"}

Entries(C, M) == {NoEntry, DirEntry} \cup {FileEntry(c, m) : c \in C, m \in M}

\* A tree of the file system: the root is a directory or missing, and
\* every present entry lies in a directory.
WellFormed(t) ==
    /\ t[Root].kind \in {"none", "dir"}
    /\ \A p \in Paths \ {Root} : t[p].kind # "none" => t[Parent(p)].kind = "dir"

TreesOf(C, M) == {t \in [Paths -> Entries(C, M)] : WellFormed(t)}
Trees == TreesOf(Contents, Mtimes)
\* trees that hold at most the entry a, of one content and one timestamp
LoopTrees == {t \in TreesOf({"X"}, {StartTime}) : t[<<"d">>].kind = "none"}

\* Path::exists / fs::metadata(..).is_ok()
Exists(t, p) == t[p].kind # "none"
\* Path::is_dir
IsDir(t, p) == t[p].kind = "dir"

\* ----------------------------------------------------------------- WalkDir
Perms(S) == {s \in [1..Cardinality(S) -> S] : \A i, j \in DOMAIN s : s[i] = s[j] => i = j}

\* WalkDir yields a directory before its contents and finishes a directory's
\* subtree before it moves to the next sibling; the order of siblings is the
\* order readdir returns them in.
WalkOrders(t) ==
    {s \in Perms(Present(t)) :
        /\ s[1] = Root
        /\ \A i, j \in DOMAIN s :
              (i < j /\ IsUnder(s[j], s[i])) =>
                  \A k \in i..j : IsUnder(s[k], s[i])
        /\ \A i, j \in DOMAIN s : (IsUnder(s[j], s[i]) /\ s[i] # s[j]) => i < j}

\* the entries of the root directory, in the order a walk yielded them
TopLevel(w) == SelectSeq(w, LAMBDA p : Len(p) = 1)

\* readdir returns the entries of an unchanged directory in the same order
\* every time: a walk agrees with the order rd an earlier walk has shown
\* (rd is empty while no walk has shown one)
Consistent(w, rd) == rd = << >> \/ Len(TopLevel(w)) < 2 \/ TopLevel(w) = rd

\* --------------------------------------------------------- ChangeDetector
Digest(c) == <<"sha256", c>>

calculate_hash(t, p) ==
    IF t[p].kind = "file"
    THEN [ok |-> TRUE, hash |-> Digest(t[p].content)]
    ELSE [ok |-> FALSE, hash |-> << >>]

\* mutant: the timestamp test is >= instead of >
is_file_updated_NotOlder(src_entry, D, p) ==
    IF Exists(D, p)
    THEN IF src_entry.mtime >= D[p].mtime
         THEN TRUE
         ELSE LET src_hash == calculate_hash(D, p)
                  dest_hash == calculate_hash(D, p)
              IN  IF src_hash.ok /\ dest_hash.ok
                  THEN src_hash.hash # dest_hash.hash
                  ELSE TRUE
    ELSE TRUE

\* mutant: a digest that cannot be computed counts as unchanged
is_file_updated_HashErrorSkips(src_entry, D, p) ==
    IF Exists(D, p)
    THEN IF src_entry.mtime > D[p].mtime
         THEN TRUE
         ELSE LET src_hash == calculate_hash(D, p)
                  dest_hash == calculate_hash(D, p)
              IN  IF src_hash.ok /\ dest_hash.ok
                  THEN src_hash.hash # dest_hash.hash
                  ELSE FALSE
    ELSE TRUE

is_file_updated(src_entry, D, p) ==
    IF Exists(D, p)
    THEN IF src_entry.mtime > D[p].mtime
         THEN TRUE
         ELSE LET src_hash == calculate_hash(D, p)
                  dest_hash == calculate_hash(D, p)
              IN  IF src_hash.ok /\ dest_hash.ok
                  THEN src_hash.hash # dest_hash.hash
                  ELSE TRUE
    ELSE TRUE

\* ------------------------------------------------- filesystem operations
\* Each returns [ok, tree]: the tree after the call and whether it succeeded.

\* fs::create_dir_all: creates p and its missing ancestors; fails when p or
\* an ancestor is a regular file.
create_dir_all(D, p) ==
    LET chain == {q \in Paths : IsUnder(p, q)}
    IN  IF \E q \in chain : D[q].kind = "file"
        THEN [ok |-> FALSE, tree |-> D]
        ELSE [ok |-> TRUE,
              tree |-> [q \in Paths |-> IF q \in chain THEN DirEntry ELSE D[q]]]

\* fs::copy: writes the source's bytes to p, stamped with the current time;
\* fails when p is a directory or p's parent is not a directory.
copy(src_entry, D, p, time) ==
    IF p = Root \/ D[p].kind = "dir" \/ D[Parent(p)].kind # "dir"
    THEN [ok |-> FALSE, tree |-> D]
    ELSE [ok |-> TRUE,
          tree |-> [D EXCEPT ![p] = FileEntry(src_entry.content, time)]]

\* fs::remove_dir_all
remove_dir_all(D, p) ==
    IF D[p].kind = "dir"
    THEN [ok |-> TRUE,
          tree |-> [q \in Paths |-> IF IsUnder(q, p) THEN NoEntry ELSE D[q]]]
    ELSE [ok |-> FALSE, tree |-> D]

\* fs::remove_file
remove_file(D, p) ==
    IF D[p].kind = "file"
    THEN [ok |-> TRUE, tree |-> [D EXCEPT ![p] = NoEntry]]
    ELSE [ok |-> FALSE, tree |-> D]

\* ------------------------------------------------------------------ state
VARIABLES
    source,       \* the tree under the source root
    destination,  \* the tree under the destination root
    mode,         \* the mode argument
    running,      \* the shared AtomicBool
    pc,           \* position of the spawned sync task
    pass,         \* 1: sync_oneway(source, destination), 2: the reverse call
    dest_files,   \* the HashSet of sync_oneway
    walk,         \* entries the source walk has still to yield
    readdir,      \* per root, the order readdir has shown for its entries
    result,       \* what the last finished cycle returned
    cycle,        \* cycles started so far
    now,          \* the clock
    rpc,          \* position of main's stdin loop
    stdin,        \* what standard input holds for the next read
    proc,         \* "running" until main returns
    interrupted,  \* history: the Ctrl-C handler has run
    quit,         \* history: the line "q" has been read
    src0,         \* history: source when the current cycle started
    dst0,         \* history: destination when the current cycle started
    log           \* history: operations that succeeded in the current cycle

vars == <<source, destination, mode, running, pc, pass, dest_files, walk,
          readdir, result, cycle, now, rpc, stdin, proc, interrupted, quit,
          src0, dst0, log>>

fsVars == <<source, destination>>
mainVars == <<rpc, stdin, proc, interrupted, quit>>

\* mode dispatch of the spawned task
IsValidMode(m) == m \in {"one", "bi", "one+no_delete", "bi+no_delete"}
\* mutant: the one+no_delete arm passes delete = true
DeleteEnabled_KeepArmDeletes(m) == m \in {"one", "bi", "one+no_delete"}
\* mutant: the bi arm passes delete = false
DeleteEnabled_BiKeeps(m) == m \in {"one"}
DeleteEnabled(m) == m \in {"one", "bi"}
\* mutant: the "one" arm calls sync_bothways
Bothways_OneIsBothways(m) == m \in {"bi", "bi+no_delete", "one"}
Bothways(m) == m \in {"bi", "bi+no_delete"}

\* the trees a pass reads from and writes to
FromTree == IF pass = 1 THEN source ELSE destination
ToTree == IF pass = 1 THEN destination ELSE source
FromName == IF pass = 1 THEN "source" ELSE "destination"

SetToTree(t) ==
    IF pass = 1
    THEN destination' = t /\ source' = source
    ELSE source' = t /\ destination' = destination

Op(kind, p) == [op |-> kind, pass |-> pass, path |-> p]

TypeOK ==
    /\ source \in TreesOf(Contents, 0..now)
    /\ destination \in TreesOf(Contents, 0..now)
    /\ now \in StartTime..(StartTime + MaxCycles)
    /\ mode \in ModeArgs
    /\ running \in BOOLEAN
    /\ pc \in {"loop", "snapshot", "walk", "delete", "sleep", "done"}
    /\ pass \in {1, 2}
    /\ dest_files \subseteq Paths
    /\ result \in {"none", "ok", "walkdir", "create_dir", "copy", "remove"}
    /\ cycle \in 0..MaxCycles
    /\ rpc \in {"check", "read", "sleep", "returned"}
    /\ stdin \in {"idle", "q", "x", "eof"}
    /\ proc \in {"running", "exited"}

InitWith(T) ==
    /\ source \in T
    /\ destination \in T
    /\ mode \in ModeArgs
    /\ running = TRUE
    /\ pc = "loop"
    /\ pass = 1
    /\ dest_files = {}
    /\ walk = << >>
    /\ readdir = [r \in {"source", "destination"} |-> << >>]
    /\ result = "none"
    /\ cycle = 0
    /\ now = StartTime
    /\ rpc = "check"
    /\ stdin = "idle"
    /\ proc = "running"
    /\ interrupted = FALSE
    /\ quit = FALSE
    /\ src0 = source
    /\ dst0 = destination
    /\ log = << >>

Init == InitWith(LoopTrees)
InitSync == InitWith(Trees)

\* -------------------------------------------------------- the sync task
\* sync_oneway / sync_bothways return r: after a successful first pass
\* sync_bothways calls the reverse pass, otherwise the cycle ends with r.
\* mutant: an error of the cycle is propagated with `?` and ends the task
Return_ErrorEndsTask(r) ==
    /\ walk' = << >>
    /\ dest_files' = {}
    /\ IF r = "ok" /\ Bothways(mode) /\ pass = 1
       THEN pc' = "snapshot" /\ pass' = 2 /\ result' = result
       ELSE /\ pc' = IF r = "ok" THEN "sleep" ELSE "done"
            /\ pass' = pass
            /\ result' = r

\* mutant: sync_bothways drops the first pass's error and runs the reverse
\* pass all the same
Return_IgnoresFirstError(r) ==
    /\ walk' = << >>
    /\ dest_files' = {}
    /\ IF Bothways(mode) /\ pass = 1
       THEN pc' = "snapshot" /\ pass' = 2 /\ result' = result
       ELSE pc' = "sleep" /\ pass' = pass /\ result' = r

Return(r) ==
    /\ walk' = << >>
    /\ dest_files' = {}
    /\ IF r = "ok" /\ Bothways(mode) /\ pass = 1
       THEN pc' = "snapshot" /\ pass' = 2 /\ result' = result
       ELSE pc' = "sleep" /\ pass' = pass /\ result' = r

\* while sync_thread_running.load(..) { match mode.as_str() { .. } }
LoopCheck ==
    /\ proc = "running"
    /\ pc = "loop"
    /\ IF running /\ IsValidMode(mode)
       THEN /\ cycle < MaxCycles
            /\ cycle' = cycle + 1
            /\ pc' = "snapshot"
            /\ pass' = 1
            /\ src0' = source
            /\ dst0' = destination
            /\ log' = << >>
       ELSE /\ pc' = "done"
            /\ UNCHANGED <<cycle, pass, src0, dst0, log>>
    /\ UNCHANGED <<fsVars, mode, running, dest_files, walk, readdir, result, now,
                   mainVars>>

\* mutant: the walk of a missing destination yields no entry instead of an
\* error (the errors of the destination walk are filtered out)
Snapshot_MissingRootIsEmpty ==
    /\ proc = "running"
    /\ pc = "snapshot"
    /\ IF ~Exists(FromTree, Root)
       THEN Return("walkdir") /\ UNCHANGED readdir
       ELSE /\ dest_files' = IF DeleteEnabled(mode) THEN Present(ToTree) ELSE {}
            /\ \E w \in WalkOrders(FromTree) :
                  /\ Consistent(w, readdir[FromName])
                  /\ walk' = w
                  /\ readdir' = IF Len(TopLevel(w)) < 2 THEN readdir
                                 ELSE [readdir EXCEPT ![FromName] = TopLevel(w)]
            /\ pc' = "walk"
            /\ UNCHANGED <<pass, result>>
    /\ UNCHANGED <<fsVars, mode, running, cycle, now, mainVars, src0, dst0, log>>

\* sync_oneway up to the first entry of the source walk: the snapshot of the
\* destination (delete only) and the start of WalkDir::new(source).
Snapshot ==
    /\ proc = "running"
    /\ pc = "snapshot"
    /\ IF DeleteEnabled(mode) /\ ~Exists(ToTree, Root)
       THEN Return("walkdir") /\ UNCHANGED readdir
       ELSE IF ~Exists(FromTree, Root)
       THEN Return("walkdir") /\ UNCHANGED readdir
       ELSE /\ dest_files' = IF DeleteEnabled(mode) THEN Present(ToTree) ELSE {}
            /\ \E w \in WalkOrders(FromTree) :
                  /\ Consistent(w, readdir[FromName])
                  /\ walk' = w
                  /\ readdir' = IF Len(TopLevel(w)) < 2 THEN readdir
                                 ELSE [readdir EXCEPT ![FromName] = TopLevel(w)]
            /\ pc' = "walk"
            /\ UNCHANGED <<pass, result>>
    /\ UNCHANGED <<fsVars, mode, running, cycle, now, mainVars, src0, dst0, log>>

\* mutant: the entry the walk yields stays in the snapshot
Untrack_KeepsEntry(files, p) == files

\* if delete { dest_files.remove(..) }: the entry the walk yields is accounted
\* for
Untrack(files, p) == IF DeleteEnabled(mode) THEN files \ {p} ELSE files

\* one iteration of `for entry in WalkDir::new(source)`
WalkStep ==
    /\ proc = "running"
    /\ pc = "walk"
    /\ walk # << >>
    /\ LET p == Head(walk)
           S == FromTree
           D == ToTree
           tracked == Untrack(dest_files, p)
       IN  IF IsDir(S, p)
           THEN IF ~Exists(D, p)
                THEN LET r == create_dir_all(D, p)
                     IN  IF r.ok
                         THEN /\ SetToTree(r.tree)
                              /\ log' = Append(log, Op("create", p))
                              /\ walk' = Tail(walk)
                              /\ dest_files' = tracked
                              /\ UNCHANGED <<pc, pass, result>>
                         ELSE /\ Return("create_dir")
                              /\ UNCHANGED <<fsVars, log>>
                ELSE /\ walk' = Tail(walk)
                     /\ dest_files' = tracked
                     /\ UNCHANGED <<fsVars, log, pc, pass, result>>
           ELSE IF ~Exists(D, p) \/ is_file_updated(S[p], D, p)
                THEN LET r == copy(S[p], D, p, now)
                     IN  IF r.ok
                         THEN /\ SetToTree(r.tree)
                              /\ log' = Append(log, Op("copy", p))
                              /\ walk' = Tail(walk)
                              /\ dest_files' = tracked
                              /\ UNCHANGED <<pc, pass, result>>
                         ELSE /\ Return("copy")
                              /\ UNCHANGED <<fsVars, log>>
                ELSE /\ walk' = Tail(walk)
                     /\ dest_files' = tracked
                     /\ UNCHANGED <<fsVars, log, pc, pass, result>>
    /\ UNCHANGED <<mode, running, readdir, cycle, now, mainVars, src0, dst0>>

\* the source walk is exhausted
WalkEnd ==
    /\ proc = "running"
    /\ pc = "walk"
    /\ walk = << >>
    /\ IF DeleteEnabled(mode)
       THEN pc' = "delete" /\ UNCHANGED <<pass, result, walk, dest_files>>
       ELSE Return("ok")
    /\ UNCHANGED <<fsVars, mode, running, readdir, cycle, now, mainVars, src0, dst0, log>>

\* mutant: a snapshot path the source does not hold is removed as soon as it
\* is known, while the source walk is still going on
DeleteStep_DuringWalk ==
    /\ proc = "running"
    /\ pc \in {"walk", "delete"}
    /\ dest_files # {}
    /\ \E p \in dest_files :
          LET D == ToTree
              r == IF IsDir(D, p) THEN remove_dir_all(D, p) ELSE remove_file(D, p)
          IN  /\ pc = "walk" => ~Exists(FromTree, p)
              /\ IF r.ok
                 THEN /\ SetToTree(r.tree)
                      /\ log' = Append(log, Op("remove", p))
                      /\ dest_files' = dest_files \ {p}
                      /\ UNCHANGED <<pc, pass, result, walk>>
                 ELSE /\ Return("remove")
                      /\ UNCHANGED <<fsVars, log>>
    /\ UNCHANGED <<mode, running, readdir, cycle, now, mainVars, src0, dst0>>

\* one iteration of `for remaining_path in dest_files`; a HashSet iterates
\* in an arbitrary order
DeleteStep ==
    /\ proc = "running"
    /\ pc = "delete"
    /\ dest_files # {}
    /\ \E p \in dest_files :
          LET D == ToTree
              r == IF IsDir(D, p) THEN remove_dir_all(D, p) ELSE remove_file(D, p)
          IN  IF r.ok
              THEN /\ SetToTree(r.tree)
                   /\ log' = Append(log, Op("remove", p))
                   /\ dest_files' = dest_files \ {p}
                   /\ UNCHANGED <<pc, pass, result, walk>>
              ELSE /\ Return("remove")
                   /\ UNCHANGED <<fsVars, log>>
    /\ UNCHANGED <<mode, running, readdir, cycle, now, mainVars, src0, dst0>>

\* dest_files is exhausted: Ok(())
DeleteEnd ==
    /\ proc = "running"
    /\ pc = "delete"
    /\ dest_files = {}
    /\ Return("ok")
    /\ UNCHANGED <<fsVars, mode, running, readdir, cycle, now, mainVars, src0, dst0, log>>

\* the error, if any, is logged; tokio::time::sleep(10 s) completes
Sleep ==
    /\ proc = "running"
    /\ pc = "sleep"
    /\ pc' = "loop"
    /\ now' = now + 1
    /\ UNCHANGED <<fsVars, mode, running, pass, dest_files, walk, readdir, result,
                   cycle, mainVars, src0, dst0, log>>

SyncTask == LoopCheck \/ Snapshot \/ WalkStep \/ WalkEnd \/ DeleteStep \/ DeleteEnd \/ Sleep

syncVars == <<source, destination, mode, pc, pass, dest_files, walk, readdir, result,
              cycle, now, src0, dst0, log>>

\* ----------------------------------------------------- main's stdin loop
\* while running.load(..): when the flag is cleared the loop ends, main
\* returns and the runtime is dropped with the spawned task wherever it is.
ReaderCheck ==
    /\ proc = "running"
    /\ rpc = "check"
    /\ IF running
       THEN rpc' = "read" /\ proc' = proc
       ELSE rpc' = "returned" /\ proc' = "exited"
    /\ UNCHANGED <<syncVars, running, stdin, interrupted, quit>>

\* mutant: the flag is stored from the comparison, running.store(line != "q")
ReaderRead_StoresComparison ==
    /\ proc = "running"
    /\ rpc = "read"
    /\ stdin # "idle"
    /\ rpc' = "sleep"
    /\ stdin' = IF stdin = "eof" THEN "eof" ELSE "idle"
    /\ running' = IF stdin = "eof" THEN running ELSE stdin # "q"
    /\ quit' = IF stdin = "q" THEN TRUE ELSE quit
    /\ UNCHANGED <<syncVars, proc, interrupted>>

\* lines.next_line().await.unwrap_or(None): completes when standard input
\* holds a line or is at end of file
ReaderRead ==
    /\ proc = "running"
    /\ rpc = "read"
    /\ stdin # "idle"
    /\ rpc' = "sleep"
    /\ stdin' = IF stdin = "eof" THEN "eof" ELSE "idle"
    /\ running' = IF stdin = "q" THEN FALSE ELSE running
    /\ quit' = IF stdin = "q" THEN TRUE ELSE quit
    /\ UNCHANGED <<syncVars, proc, interrupted>>

\* tokio::time::sleep(1 s) completes
ReaderSleep ==
    /\ proc = "running"
    /\ rpc = "sleep"
    /\ rpc' = "check"
    /\ UNCHANGED <<syncVars, running, stdin, proc, interrupted, quit>>

MainTask == ReaderCheck \/ ReaderRead \/ ReaderSleep

\* ------------------------------------------------------- the environment
\* the Ctrl-C handler: r.store(false)
Interrupt ==
    /\ proc = "running"
    /\ ~interrupted
    /\ running' = FALSE
    /\ interrupted' = TRUE
    /\ UNCHANGED <<syncVars, rpc, stdin, proc, quit>>

\* the user types a line
TypeLine ==
    /\ proc = "running"
    /\ stdin = "idle"
    /\ \E l \in {"q", "x"} : stdin' = l
    /\ UNCHANGED <<syncVars, running, rpc, proc, interrupted, quit>>

\* standard input is closed
CloseStdin ==
    /\ proc = "running"
    /\ stdin = "idle"
    /\ stdin' = "eof"
    /\ UNCHANGED <<syncVars, running, rpc, proc, interrupted, quit>>

Environment == Interrupt \/ TypeLine \/ CloseStdin

Next == SyncTask \/ MainTask \/ Environment

\* the whole program, on the trees of LoopTrees
Spec == Init /\ [][Next]_vars

\* the sync task alone (no shutdown is requested), on all trees
SpecSync == InitSync /\ [][SyncTask]_vars

\* the whole program under the scheduler's guarantees: the runtime keeps
\* running both tasks; nothing obliges the environment to deliver a signal
\* or a line
SpecFair == Init /\ [][Next]_vars /\ WF_vars(SyncTask) /\ WF_vars(MainTask)

\* ----------------------------------------------------------- properties
Files(t) == {p \in Paths : t[p].kind = "file"}

\* a cycle has returned and the task is in its interval sleep
CycleDone == pc = "sleep"

\* paths the destination held at the start of the cycle and the source did not
Extraneous == Present(dst0) \ Present(src0)

\* C1 Mirror completeness: after a OneWay/Delete cycle every file of the
\* source is a file of the destination with the same content (stated for the
\* cycles that return Ok).
C1_MirrorCompleteness ==
    (CycleDone /\ mode = "one" /\ result = "ok") =>
        \A p \in Files(src0) :
            /\ destination[p].kind = "file"
            /\ destination[p].content = src0[p].content

\* C2 Content over timestamp: when the destination file exists and the source
\* file is not newer, is_file_updated answers true exactly when the digest of
\* the source file differs from the digest of the destination file.
C2_ContentOverTimestamp ==
    (pc = "walk" /\ walk # << >>) =>
        LET p == Head(walk)
        IN  (/\ FromTree[p].kind = "file"
             /\ ToTree[p].kind = "file"
             /\ FromTree[p].mtime <= ToTree[p].mtime) =>
                (is_file_updated(FromTree[p], ToTree, p)
                    <=> (calculate_hash(FromTree, p).hash # calculate_hash(ToTree, p).hash))

\* C3 Deletion reconciliation: a OneWay/Delete cycle whose source walk got
\* through removes every path the destination held and the source did not,
\* and returns Ok, whatever the order the snapshot is iterated in.
C3_DeletionReconciliation ==
    (CycleDone /\ mode = "one" /\ result \notin {"walkdir", "create_dir", "copy"}) =>
        /\ result = "ok"
        /\ \A p \in Extraneous : ~Exists(destination, p)

\* C4 Keep mode: with deletion disabled no remove is performed and every
\* path the destination held and the source did not keeps its entry in the
\* destination.
C4_KeepModeUntouched ==
    mode \in {"one+no_delete", "bi+no_delete"} =>
        /\ \A i \in DOMAIN log : log[i].op # "remove"
        /\ \A p \in Extraneous : destination[p] = dst0[p]

C4_Witness ==
    /\ CycleDone
    /\ mode \in {"one+no_delete", "bi+no_delete"}
    /\ result = "ok"
    /\ log # << >>
    /\ \E p \in Extraneous : dst0[p].kind = "file"
    /\ \E p \in Extraneous : dst0[p].kind = "dir"

\* C5 Idempotence: the second of two successive OneWay cycles performs no
\* copy, no directory creation and no removal.
C5_Idempotence ==
    (CycleDone /\ cycle = 2 /\ mode \in {"one", "one+no_delete"}) => log = << >>

\* paths that are files of different content in the two trees when the
\* cycle starts
Differing ==
    {p \in Paths : /\ src0[p].kind = "file"
                   /\ dst0[p].kind = "file"
                   /\ src0[p].content # dst0[p].content}

BothHold(p, c) ==
    /\ source[p].kind = "file" /\ source[p].content = c
    /\ destination[p].kind = "file" /\ destination[p].content = c

InCycle == pc \in {"snapshot", "walk", "delete"}

\* C7 No mid-cycle interruption: a cycle that has begun its walk finishes all
\* of its steps before the process stops, so the process never stops with
\* source entries still to visit or snapshot paths still to remove.
C7_NoMidCycleInterruption ==
    proc = "exited" =>
        /\ ~(pc = "walk" /\ walk # << >>)
        /\ ~(pc = "delete" /\ dest_files # {})

\* the last finished cycle returned an error
Failed == result \notin {"none", "ok"}

\* C8 A failed cycle never stops the run loop: a cycle that ends, ends in the
\* interval sleep; the sleep leads back to the loop condition; after a failed
\* cycle the loop condition starts the next cycle when the flag is still set;
\* and the task returns only from the loop condition, with the flag cleared
\* or the mode unrecognised.
C8_FailedCycleContinues ==
    [][/\ (InCycle /\ ~InCycle') => pc' = "sleep"
       /\ (pc = "sleep" /\ pc' # pc) => pc' = "loop"
       /\ (pc = "loop" /\ Failed /\ running /\ pc' # pc) =>
              (pc' = "snapshot" /\ cycle' = cycle + 1)
       /\ (pc # "done" /\ pc' = "done") =>
              (pc = "loop" /\ (~running \/ ~IsValidMode(mode)))]_vars

C8_Witness == Failed /\ pc = "snapshot" /\ cycle = 2 /\ running

\* C9 Equivalent shutdown triggers: an interrupt and the line q both clear
\* the flag, and after either the process terminates without further input.
C9_EquivalentTriggers ==
    /\ []((interrupted \/ quit) => ~running)
    /\ (interrupted \/ quit) ~> (proc = "exited")

\* C10 Unrecognised mode is fatal at startup: no filesystem operation is
\* performed and the process terminates on its own.
C10_InvalidModeFatal ==
    /\ [](~IsValidMode(mode) => (log = << >> /\ source = src0 /\ destination = dst0))
    /\ (~IsValidMode(mode)) ~> (proc = "exited")

\* the current call of sync_oneway is at the point where it returns Ok(())
PassReturnsOk ==
    \/ pc = "walk" /\ walk = << >> /\ mode \in {"one+no_delete", "bi+no_delete"}
    \/ pc = "delete" /\ dest_files = {}

\* C11 Second pass skipped on failure: a BiDirectional cycle starts with the
\* source-to-destination pass; the reverse pass starts only from the point
\* where the first pass returns Ok; a cycle that ends in the first pass ends
\* with that pass's error and the source as it was; and the reverse pass
\* removes entries exactly when the mode deletes.
C11_SecondPassSkippedOnFailure ==
    /\ [][/\ (pc = "loop" /\ pc' = "snapshot") => pass' = 1
          /\ (pass = 1 /\ pass' = 2) => (PassReturnsOk /\ pc' = "snapshot")
          /\ (pass = 1 /\ pass' = 1) => source' = source
          /\ (pass = 1 /\ InCycle /\ pc' = "sleep" /\ mode \in {"bi", "bi+no_delete"}) =>
                 (result' \notin {"none", "ok"} /\ source' = src0)
          /\ (pass = 2 /\ pc' = "delete") => mode = "bi"]_vars
    /\ [](pass = 2 => mode \in {"bi", "bi+no_delete"})

C11_Witness ==
    /\ CycleDone /\ mode \in {"bi", "bi+no_delete"}
    /\ pass = 1 /\ Failed /\ log # << >>
    /\ \E p \in Present(dst0) : ~Exists(src0, p)

\* C12 Creations before deletions: within one pass no directory creation and
\* no file copy follows a removal.
C12_CreationsBeforeDeletions ==
    \A i, j \in DOMAIN log :
        (i < j /\ log[i].pass = log[j].pass /\ log[i].op = "remove") =>
            log[j].op = "remove"

C12_Witness ==
    \E i, j, k \in DOMAIN log :
        /\ i < j /\ j < k
        /\ log[i].pass = 1 /\ log[j].pass = 1 /\ log[k].pass = 1
        /\ log[i].op = "create" /\ log[j].op = "copy" /\ log[k].op = "remove"

\* C13 The flag is read before the interval sleep: a cycle that ends with the
\* flag cleared is not followed by the sleep.
C13_FlagReadBeforeSleep ==
    [][(InCycle /\ ~running) => pc' # "sleep"]_vars

\* entries the source walk of the current pass has already processed
Processed == Present(FromTree) \ {walk[i] : i \in DOMAIN walk}

\* C14 Directory before contents: once the walk has processed a directory
\* entry of the source a directory exists at the same path of the
\* destination, so the entries beneath it are copied into an existing
\* directory.
C14_DirectoryBeforeContents ==
    pc = "walk" =>
        \A p \in Processed : IsDir(FromTree, p) => IsDir(ToTree, p)

\* the walk is about to process a file whose destination exists and is not
\* older, and a digest is not computable (the destination path cannot be
\* read as a file)
HashFailsAtHead ==
    /\ pc = "walk"
    /\ walk # << >>
    /\ FromTree[Head(walk)].kind = "file"
    /\ Exists(ToTree, Head(walk))
    /\ FromTree[Head(walk)].mtime <= ToTree[Head(walk)].mtime
    /\ ~calculate_hash(ToTree, Head(walk)).ok

\* C15 Fail-open hashing: when the timestamps are inconclusive and a digest
\* cannot be computed, is_file_updated answers true, and the step goes on to
\* the copy: the file is copied, or the pass ends with the error of fs::copy
\* (never with an error of the hashing).
C15_FailOpenHashing ==
    /\ [](HashFailsAtHead => is_file_updated(FromTree[Head(walk)], ToTree, Head(walk)))
    /\ [][HashFailsAtHead =>
            \/ log' = Append(log, Op("copy", Head(walk)))
            \/ pc' = "sleep" /\ result' = "copy"]_vars

C15_Witness ==
    /\ CycleDone /\ pass = 1 /\ result = "copy"
    /\ \E p \in Files(src0) :
          /\ IsDir(destination, p)
          /\ src0[p].mtime <= destination[p].mtime

\* C16 The source tree is read-only in the one-way modes: no step changes the
\* source, and every operation performed belongs to the source-to-destination
\* pass.
C16_SourceReadOnlyOneWay ==
    /\ [][(mode \in {"one", "one+no_delete"}) => (source' = source)]_vars
    /\ [](mode \in {"one", "one+no_delete"} =>
            (pass = 1 /\ source = src0 /\ \A i \in DOMAIN log : log[i].pass = 1))

C16_Witness ==
    /\ CycleDone /\ mode = "one" /\ Failed
    /\ \E i, j \in DOMAIN log : log[i].op = "copy" /\ log[j].op = "remove"

\* C17 BiDirectional/Delete never propagates destination-only entries: after
\* a BiDirectional cycle with deletion that returns Ok both trees hold
\* exactly the paths the source held before the cycle; every path only the
\* destination held was removed by the first pass, and the reverse pass
\* performed no operation on such a path.
C17_BiDeleteKeepsSourcePaths ==
    (CycleDone /\ mode = "bi" /\ result = "ok") =>
        /\ Present(source) = Present(src0)
        /\ Present(destination) = Present(src0)
        /\ \A p \in Extraneous :
              \E i \in DOMAIN log :
                  /\ log[i].op = "remove" /\ log[i].pass = 1
                  /\ IsUnder(p, log[i].path)
        /\ \A i \in DOMAIN log : log[i].pass = 2 => log[i].path \notin Extraneous

C17_Witness ==
    /\ CycleDone /\ mode = "bi" /\ result = "ok"
    /\ \E p \in Extraneous : dst0[p].kind = "file"
    /\ \E p \in Extraneous : dst0[p].kind = "dir"
    /\ Files(src0) # {}

\* C18 The deletion set is sound: every removal of the first pass is of a
\* path the destination held when the cycle started and the source does not
\* hold, every removal of the reverse pass is of a path the source held and
\* the destination does not hold; the root is never removed, and no path
\* that was created or copied in a pass is removed in that pass.
C18_DeletionSetSound ==
    \A i \in DOMAIN log :
        log[i].op = "remove" =>
            /\ log[i].path # Root
            /\ log[i].pass = 1 =>
                   (log[i].path \in Present(dst0) /\ log[i].path \notin Present(src0))
            /\ log[i].pass = 2 =>
                   (log[i].path \in Present(src0) /\ log[i].path \notin Present(destination))
            /\ \A j \in DOMAIN log :
                   (log[j].pass = log[i].pass /\ log[j].op # "remove") =>
                       log[j].path # log[i].path

C18_Witness ==
    /\ CycleDone /\ result = "ok"
    /\ \E i, j \in DOMAIN log :
          /\ log[i].pass = 1 /\ log[j].pass = 1
          /\ log[i].op = "copy" /\ log[j].op = "remove"
    /\ \E p \in Present(dst0) \ {Root} : Exists(src0, p) /\ Exists(destination, p)

\* C19 Missing destination root: with deletion enabled a cycle that starts
\* with no destination root fails in the snapshot walk before any operation,
\* so neither tree changes and the destination is never created, cycle after
\* cycle; with deletion disabled (and a source root) the first pass creates
\* the destination root first and copies every file of the source into it.
C19_MissingDestinationRoot ==
    /\ (mode \in {"one", "bi"} /\ ~Exists(dst0, Root)) =>
           /\ log = << >>
           /\ source = src0 /\ destination = dst0
           /\ pc \notin {"walk", "delete"}
           /\ pass = 1
           /\ CycleDone => result = "walkdir"
    /\ (/\ mode \in {"one+no_delete", "bi+no_delete"}
        /\ ~Exists(dst0, Root) /\ Exists(src0, Root)
        /\ CycleDone) =>
           /\ result = "ok"
           /\ log # << >> /\ log[1] = [op |-> "create", pass |-> 1, path |-> Root]
           /\ \A p \in Files(src0) :
                 /\ destination[p].kind = "file"
                 /\ destination[p].content = src0[p].content

C19_Witness ==
    /\ CycleDone /\ cycle = 2 /\ mode = "one"
    /\ ~Exists(destination, Root)
    /\ Files(source) # {}
    /\ result = "walkdir"

\* C20 The cancellation flag is monotonic: it is set until the handler has
\* run or the line q has been read; a step that changes it clears it and is
\* a step of the handler or of the reader reading q; once cleared it stays
\* cleared; and no step of the sync task changes it.
C20_FlagMonotonic ==
    /\ []((~interrupted /\ ~quit) => running)
    /\ [][/\ ~running => ~running'
          /\ (running' # running) =>
                 (~running' /\ (interrupted' # interrupted \/ quit' # quit))
          /\ (syncVars' # syncVars) => (running' = running)]_vars

C20_Witness ==
    /\ ~running /\ interrupted /\ ~quit
    /\ rpc = "check" /\ stdin = "idle" /\ pc = "delete"

====
